---- MODULE Spec2Model ----
(***************************************************************************)
(* DojotClientHttp (lib/webUtils/DojotClientHttp.js): an axios wrapper     *)
(* that retries a failed request after a delay.  One request() call is a   *)
(* chain of callbacks: doRequest sends, the transport's promise runs the   *)
(* then-handler (resolve) or the catch-handler (retry), and retry either   *)
(* rejects or arms a timer whose callback calls doRequest again.  Each     *)
(* callback runs to completion (single-threaded event loop), so each is    *)
(* one action here.                                                        *)
(***************************************************************************)
EXTENDS Integers, Sequences, FiniteSets, TLC

\* ---------------------------------------------------------------- bounds
\* The transport fails at most MaxFailures times per request, then answers.
MaxFailures == 4
\* Request slots of the client; Init decides which of them the caller uses.
NumRequests == 2
\* With two requests in flight at once, each fails at most this many times.
MaxConcFailures == 2

\* ------------------------------------------------------ program constants
DefaultRetryDelayParam == 5000
DefaultMaxNumberAttemptsParam == 3
TooManyRequests == 429

\* ------------------------------------------------------------ JS values
\* undefined is None, a present value v is Some(v).
None == <<>>
Some(v) == <<v>>
IsSome(o) == o # None
Get(o) == o[1]

\* Truthiness of an optional number: undefined and 0 are falsy.
Truthy(o) == IsSome(o) /\ Get(o) # 0

\* A default parameter value applies when the argument is undefined.
DefaultParam(o, d) == IF IsSome(o) THEN Get(o) ELSE d

Requests == 1..NumRequests

\* Inputs: constructor options and per-call arguments.
CtorRetryDelays == {None, Some(100)}
CtorMaxNumberAttempts == {None, Some(0), Some(2)}
ArgRetryDelays == {None, Some(0), Some(50)}
ArgMaxNumberAttempts == {None, Some(0), Some(1), Some(2)}

\* What the transport rejects with: an error that carries a response with
\* a status, or one with no response at all.
StatusError(s) ==
    [message |-> <<"Request failed with status code", s>>,
     response |-> Some([status |-> s])]
NetworkError == [message |-> <<"Network Error">>, response |-> None]
RequestErrors == {StatusError(TooManyRequests), StatusError(500), NetworkError}

\* The response of the k-th send of a request (k identifies the object).
Response(k) == [status |-> 200, send |-> k]

VARIABLES
    ctorOptions,                \* the options the constructor was given
    defaultRetryDelay,          \* this.defaultRetryDelay
    defaultMaxNumberAttempts,   \* this.defaultMaxNumberAttempts
    workload,                   \* the request slots the caller will use
    pc,                         \* per request: idle, sending, waiting, done
    args,                       \* per request: the arguments of request()
    config,                     \* per request: configRetryRequest of the send
    sends,                      \* per request: calls of this.axios(options)
    outcomes,                   \* per request: what each send ran with and ended with
    promise,                    \* per request: the promise request() returned
    resolveCalls,               \* per request: calls of resolve
    rejectCalls,                \* per request: calls of reject
    retryCalls,                 \* per request: calls of retry
    timer,                      \* per request: the pending setTimeout, if any
    waits,                      \* per request: the delays given to setTimeout
    log                         \* per request: the logger calls made for it

vars == <<ctorOptions, defaultRetryDelay, defaultMaxNumberAttempts, workload, pc, args,
          config, sends, outcomes, promise, resolveCalls, rejectCalls,
          retryCalls, timer, waits, log>>

client == <<ctorOptions, defaultRetryDelay, defaultMaxNumberAttempts, workload>>

\* ---------------------------------------------------------- constructor
NoArgs == [retryDelay |-> None, maxNumberAttempts |-> None]
NoConfig == [attempts |-> 0, retryDelay |-> 0, maxNumberAttempts |-> 0]
PendingPromise == [state |-> "pending", value |-> None]

Constructor(ctorRetryDelay, ctorMaxNumberAttempts) ==
    /\ ctorOptions = [defaultRetryDelay |-> ctorRetryDelay,
                      defaultMaxNumberAttempts |-> ctorMaxNumberAttempts]
    /\ defaultRetryDelay = DefaultParam(ctorRetryDelay, DefaultRetryDelayParam)
    /\ defaultMaxNumberAttempts =
           DefaultParam(ctorMaxNumberAttempts, DefaultMaxNumberAttemptsParam)

NoRequests ==
    /\ pc = [r \in Requests |-> "idle"]
    /\ args = [r \in Requests |-> NoArgs]
    /\ config = [r \in Requests |-> NoConfig]
    /\ sends = [r \in Requests |-> 0]
    /\ outcomes = [r \in Requests |-> <<>>]
    /\ promise = [r \in Requests |-> PendingPromise]
    /\ resolveCalls = [r \in Requests |-> 0]
    /\ rejectCalls = [r \in Requests |-> 0]
    /\ retryCalls = [r \in Requests |-> 0]
    /\ timer = [r \in Requests |-> None]
    /\ waits = [r \in Requests |-> <<>>]
    /\ log = [r \in Requests |-> <<>>]

Init ==
    /\ \E d \in CtorRetryDelays, m \in CtorMaxNumberAttempts : Constructor(d, m)
    /\ workload = {1}
    /\ NoRequests

\* -------------------------------------------------------------- request
ResolvedRetryDelayIgnoresArgument(retryDelay) == defaultRetryDelay

ResolvedRetryDelayZeroHonoured(retryDelay) ==
    IF IsSome(retryDelay) THEN Get(retryDelay) ELSE defaultRetryDelay

\* retryDelay || outerThis.defaultRetryDelay
ResolvedRetryDelay(retryDelay) ==
    IF Truthy(retryDelay) THEN Get(retryDelay) ELSE defaultRetryDelay

ResolvedMaxFalsyDefaulted(maxNumberAttempts) ==
    IF Truthy(maxNumberAttempts)
    THEN Get(maxNumberAttempts) ELSE defaultMaxNumberAttempts

\* maxNumberAttempts || maxNumberAttempts === 0
\*     ? maxNumberAttempts : this.defaultMaxNumberAttempts
ResolvedMaxNumberAttempts(maxNumberAttempts) ==
    IF Truthy(maxNumberAttempts) \/ maxNumberAttempts = Some(0)
    THEN Get(maxNumberAttempts) ELSE defaultMaxNumberAttempts

InitialRetryState(retryDelay, maxNumberAttempts) ==
    [attempts |-> 0,
     retryDelay |-> ResolvedRetryDelay(retryDelay),
     maxNumberAttempts |-> ResolvedMaxNumberAttempts(maxNumberAttempts)]

\* ------------------------------------------------------------ doRequest
\* this.axios(options): one more send, carrying configRetryRequest in the
\* closures of its then- and catch-handlers.
DoRequest(r, configRetryRequest) ==
    /\ sends' = [sends EXCEPT ![r] = @ + 1]
    /\ config' = [config EXCEPT ![r] = configRetryRequest]
    /\ pc' = [pc EXCEPT ![r] = "sending"]

Request(r, retryDelay, maxNumberAttempts) ==
    /\ r \in workload
    /\ pc[r] = "idle"
    /\ args' = [args EXCEPT ![r] = [retryDelay |-> retryDelay,
                                    maxNumberAttempts |-> maxNumberAttempts]]
    /\ DoRequest(r, InitialRetryState(retryDelay, maxNumberAttempts))
    /\ UNCHANGED <<client, outcomes, promise, resolveCalls, rejectCalls,
                   retryCalls, timer, waits, log>>

\* A promise settles on the first resolve or reject; later calls are no-ops.
Settle(p, state, value) ==
    IF p.state = "pending" THEN [state |-> state, value |-> Some(value)] ELSE p

IsFailure(outcome) == outcome.kind = "error"
Failures(r) == SelectSeq(outcomes[r], IsFailure)
NumFailures(r) == Len(Failures(r))

ResolveStatusOnly(response) == [status |-> response.status]

\* resolve(response)
ResolveValue(response) == response

\* .then((response) => { resolve(response); })
Respond(r) ==
    /\ pc[r] = "sending"
    /\ outcomes' = [outcomes EXCEPT
           ![r] = Append(@, [kind |-> "response",
                            value |-> Response(sends[r]),
                            config |-> config[r]])]
    /\ promise' = [promise EXCEPT
           ![r] = Settle(@, "fulfilled", ResolveValue(Response(sends[r])))]
    /\ resolveCalls' = [resolveCalls EXCEPT ![r] = @ + 1]
    /\ pc' = [pc EXCEPT ![r] = "done"]
    /\ UNCHANGED <<client, args, config, sends, rejectCalls, retryCalls,
                   timer, waits, log>>

\* ---------------------------------------------------------------- retry
AttemptsExceededError ==
    [message |-> <<"Number of attempts exceeded.">>, response |-> None]

RejectWithRequestError(requestError) == requestError

\* reject(new Error('Number of attempts exceeded.'))
RejectionValue(requestError) == AttemptsExceededError

AttemptsExceededNoZeroGuard(cfg) == cfg.attempts >= cfg.maxNumberAttempts

AttemptsExceededOffByOne(cfg) ==
    cfg.maxNumberAttempts > 0 /\ cfg.attempts + 1 >= cfg.maxNumberAttempts

\* maxNumberAttempts > 0 && attempts >= maxNumberAttempts
AttemptsExceeded(cfg) ==
    cfg.maxNumberAttempts > 0 /\ cfg.attempts >= cfg.maxNumberAttempts

ShouldRetryNoElse(cfg) == TRUE

ShouldRetryOnlyWhenBounded(cfg) ==
    cfg.maxNumberAttempts > 0 /\ cfg.attempts < cfg.maxNumberAttempts

\* the else branch of that test
ShouldRetry(cfg) == ~AttemptsExceeded(cfg)

IsTooManyRequests(requestError) ==
    /\ IsSome(requestError.response)
    /\ Get(requestError.response).status = TooManyRequests

\* A rate-limit flag kept on the instance instead of in the request's state.
NewRetryDelaySharedRateLimit(requestError, retryDelay) ==
    IF \/ IsTooManyRequests(requestError)
       \/ \E q \in Requests :
              /\ Len(outcomes[q]) > 0
              /\ IsFailure(outcomes[q][Len(outcomes[q])])
              /\ IsTooManyRequests(outcomes[q][Len(outcomes[q])].value)
    THEN retryDelay * 2 ELSE retryDelay

NewRetryDelayAnyResponse(requestError, retryDelay) ==
    IF IsSome(requestError.response) THEN retryDelay * 2 ELSE retryDelay

NewRetryDelayResetsToDefault(requestError, retryDelay) ==
    IF IsTooManyRequests(requestError)
    THEN retryDelay * 2 ELSE defaultRetryDelay

\* (requestError.response && requestError.response.status === 429)
\*     ? retryDelay * 2 : retryDelay
NewRetryDelay(requestError, retryDelay) ==
    IF IsTooManyRequests(requestError) THEN retryDelay * 2 ELSE retryDelay

NextRetryStateNoIncrement(requestError, cfg) ==
    [attempts |-> cfg.attempts,
     retryDelay |-> NewRetryDelay(requestError, cfg.retryDelay),
     maxNumberAttempts |-> cfg.maxNumberAttempts]

\* The closure of the timeout callback: the state of the next attempt.
NextRetryState(requestError, cfg) ==
    [attempts |-> cfg.attempts + 1,
     retryDelay |-> NewRetryDelay(requestError, cfg.retryDelay),
     maxNumberAttempts |-> cfg.maxNumberAttempts]

TimeoutDelayBeforeDoubling(requestError, cfg) == cfg.retryDelay

\* setTimeout(..., newRetryDelay)
TimeoutDelay(requestError, cfg) == NewRetryDelay(requestError, cfg.retryDelay)

RetryLogDebugOnly(requestError, cfg) ==
    << [level |-> "debug", message |-> <<"Retrying in", cfg.retryDelay>>] >>

\* this.logger.error(requestError.message);
\* this.logger.debug(`Retrying in ${retryDelay}`);
RetryLog(requestError, cfg) ==
    << [level |-> "error", message |-> requestError.message],
       [level |-> "debug", message |-> <<"Retrying in", cfg.retryDelay>>] >>

Retry(r, requestError) ==
    LET cfg == config[r] IN
    /\ retryCalls' = [retryCalls EXCEPT ![r] = @ + 1]
    /\ IF AttemptsExceeded(cfg)
       THEN /\ promise' = [promise EXCEPT
                   ![r] = Settle(@, "rejected", RejectionValue(requestError))]
            /\ rejectCalls' = [rejectCalls EXCEPT ![r] = @ + 1]
       ELSE UNCHANGED <<promise, rejectCalls>>
    /\ IF ShouldRetry(cfg)
       THEN /\ log' = [log EXCEPT ![r] = @ \o RetryLog(requestError, cfg)]
            /\ timer' = [timer EXCEPT
                   ![r] = Some([delay |-> TimeoutDelay(requestError, cfg),
                                next |-> NextRetryState(requestError, cfg)])]
            /\ waits' = [waits EXCEPT
                   ![r] = Append(@, TimeoutDelay(requestError, cfg))]
            /\ pc' = [pc EXCEPT ![r] = "waiting"]
       ELSE /\ pc' = [pc EXCEPT ![r] = "done"]
            /\ UNCHANGED <<log, timer, waits>>

\* .catch((requestError) => { this.retry(requestError, ...); })
Fail(r, requestError) ==
    /\ pc[r] = "sending"
    /\ NumFailures(r) < MaxFailures
    /\ outcomes' = [outcomes EXCEPT
           ![r] = Append(@, [kind |-> "error", value |-> requestError,
                            config |-> config[r]])]
    /\ Retry(r, requestError)
    /\ UNCHANGED <<client, args, config, sends, resolveCalls>>

\* The timeout callback:
\* outerThis.logger.debug(`Retrying response - attempt:${attempts + 1}.`);
\* outerThis.doRequest(options, resolve, reject, {...});
TimerFire(r) ==
    /\ pc[r] = "waiting"
    /\ IsSome(timer[r])
    /\ log' = [log EXCEPT ![r] = Append(@,
           [level |-> "debug",
            message |-> <<"Retrying response - attempt:",
                          Get(timer[r]).next.attempts>>])]
    /\ DoRequest(r, Get(timer[r]).next)
    /\ timer' = [timer EXCEPT ![r] = None]
    /\ UNCHANGED <<client, args, outcomes, promise, resolveCalls,
                   rejectCalls, retryCalls, waits>>

Next ==
    \/ \E r \in Requests, d \in ArgRetryDelays, m \in ArgMaxNumberAttempts :
           Request(r, d, m)
    \/ \E r \in Requests : Respond(r)
    \/ \E r \in Requests, e \in RequestErrors : Fail(r, e)
    \/ \E r \in Requests : TimerFire(r)

Spec == Init /\ [][Next]_vars

\* Every send completes and every armed timer fires.
Fairness ==
    \A r \in Requests :
        /\ WF_vars(Respond(r) \/ \E e \in RequestErrors : Fail(r, e))
        /\ WF_vars(TimerFire(r))

FairSpec == Spec /\ Fairness

\* Two request() calls on one client, their callbacks interleaved in every
\* order the event loop allows.
ConcArgRetryDelays == {None, Some(50)}
ConcArgMaxNumberAttempts == {Some(0), Some(1)}

InitConc ==
    /\ \E d \in CtorRetryDelays, m \in CtorMaxNumberAttempts : Constructor(d, m)
    /\ workload = {1, 2}
    /\ NoRequests

NextConc ==
    \/ \E r \in Requests, d \in ConcArgRetryDelays,
           m \in ConcArgMaxNumberAttempts : Request(r, d, m)
    \/ \E r \in Requests : Respond(r)
    \/ \E r \in Requests, e \in RequestErrors :
           NumFailures(r) < MaxConcFailures /\ Fail(r, e)
    \/ \E r \in Requests : TimerFire(r)

ConcSpec == InitConc /\ [][NextConc]_vars

\* ------------------------------------------------------------ properties
Called(r) == pc[r] # "idle"
Resolved(r) == promise[r].state = "fulfilled"
Rejected(r) == promise[r].state = "rejected"
MaxNumberAttemptsOf(r) == config[r].maxNumberAttempts

\* The RetryState the k-th send of r ran (or runs) with.
ConfigOfSend(r, k) ==
    IF k <= Len(outcomes[r]) THEN outcomes[r][k].config ELSE config[r]

AllSendsFailed(r) == NumFailures(r) = Len(outcomes[r])

\* C1: with a cap maxAttempts > 0, a request whose every send fails is
\* rejected after exactly maxAttempts sends: it is rejected once maxAttempts
\* sends have failed, and a rejected request has made maxAttempts sends.
C1_RejectedAfterMaxAttemptsSends ==
    \A r \in Requests :
        (Called(r) /\ MaxNumberAttemptsOf(r) > 0 /\ AllSendsFailed(r)) =>
            /\ Len(outcomes[r]) = MaxNumberAttemptsOf(r) => Rejected(r)
            /\ Rejected(r) => sends[r] = MaxNumberAttemptsOf(r)

\* C2: the promise of a request settles at most once: resolve and reject
\* are called at most once between them.
C2_SettlesAtMostOnce ==
    \A r \in Requests : resolveCalls[r] + rejectCalls[r] <= 1

C2_Witness ==
    \E r \in Requests :
        /\ pc[r] = "done"
        /\ rejectCalls[r] = 1
        /\ Len(outcomes[r]) >= 2

\* C3: the retryDelay of the send that follows a failed send is twice the
\* retryDelay of the failed send when the failure carries a response with
\* status 429, and the same retryDelay for every other failure.
C3_DelayDoublesOnlyOn429 ==
    \A r \in Requests :
        \A k \in 1..Len(outcomes[r]) :
            k < sends[r] =>
                ConfigOfSend(r, k + 1).retryDelay =
                    IF /\ outcomes[r][k].value.response # None
                       /\ outcomes[r][k].value.response[1].status = 429
                    THEN 2 * ConfigOfSend(r, k).retryDelay
                    ELSE ConfigOfSend(r, k).retryDelay

C3_Witness ==
    \E r \in Requests :
        /\ sends[r] >= 4
        /\ outcomes[r][1].value = StatusError(429)
        /\ outcomes[r][2].value = StatusError(500)
        /\ outcomes[r][3].value = NetworkError
        /\ config[r].retryDelay = 2 * ConfigOfSend(r, 1).retryDelay

\* C4: the timer armed after a failure with status 429 waits the retryDelay
\* the failed send ran with; the doubled delay is used one retry later.
C4_WaitAfter429UsesPriorDelay ==
    \A r \in Requests :
        \A k \in 1..Len(waits[r]) :
            IsTooManyRequests(outcomes[r][k].value) =>
                waits[r][k] = ConfigOfSend(r, k).retryDelay

\* C5: a request whose maxNumberAttempts is 0 is never rejected: every one
\* of its failures arms a retry timer.
C5_UnboundedNeverRejected ==
    \A r \in Requests :
        (Called(r) /\ MaxNumberAttemptsOf(r) = 0) =>
            /\ rejectCalls[r] = 0
            /\ ~Rejected(r)
            /\ Len(waits[r]) = NumFailures(r)
            /\ pc[r] = "done" => Resolved(r)

C5_Witness ==
    \E r \in Requests :
        /\ MaxNumberAttemptsOf(r) = 0
        /\ NumFailures(r) >= 4
        /\ pc[r] = "waiting"

\* C6: with maxNumberAttempts = 0, when every send completes and every
\* timer fires, a request whose transport fails N times and then answers
\* resolves, with the response of send N + 1 and after N + 1 sends.
C6_UnboundedEventuallyResolves ==
    \A r \in Requests :
        (Called(r) /\ MaxNumberAttemptsOf(r) = 0) ~>
            /\ Resolved(r)
            /\ promise[r].value = Some(Response(NumFailures(r) + 1))
            /\ sends[r] = NumFailures(r) + 1

C6_Witness ==
    \E r \in Requests :
        /\ MaxNumberAttemptsOf(r) = 0
        /\ Resolved(r)
        /\ NumFailures(r) >= 3
        /\ sends[r] = NumFailures(r) + 1

\* C7: the maxNumberAttempts of the first send is the per-call argument
\* when one is given, 0 included, and the instance default otherwise.
C7_MaxAttemptsArgumentHonoured ==
    \A r \in Requests :
        Called(r) =>
            ConfigOfSend(r, 1).maxNumberAttempts =
                IF args[r].maxNumberAttempts # None
                THEN args[r].maxNumberAttempts[1]
                ELSE defaultMaxNumberAttempts

C7_Witness ==
    \E r \in Requests :
        /\ args[r].maxNumberAttempts = Some(0)
        /\ defaultMaxNumberAttempts = 2
        /\ NumFailures(r) >= 4
        /\ pc[r] = "waiting"

\* C8: a rejected promise carries the error 'Number of attempts exceeded.'
\* and never an error of the transport.
C8_OnlyAttemptsExceededRejects ==
    \A r \in Requests :
        Rejected(r) =>
            /\ promise[r].value =
                   Some([message |-> <<"Number of attempts exceeded.">>,
                         response |-> None])
            /\ \A e \in RequestErrors : promise[r].value # Some(e)

C8_Witness ==
    \E r \in Requests :
        /\ Rejected(r)
        /\ outcomes[r][Len(outcomes[r])].value = StatusError(500)

\* C9: a request whose first send is answered resolves with that response
\* after one send, without a call of retry, a timer or a log entry.
C9_FirstSendSuccess ==
    \A r \in Requests :
        (Len(outcomes[r]) >= 1 /\ outcomes[r][1].kind = "response") =>
            /\ Resolved(r)
            /\ promise[r].value = Some(outcomes[r][1].value)
            /\ sends[r] = 1
            /\ retryCalls[r] = 0
            /\ timer[r] = None
            /\ waits[r] = <<>>
            /\ log[r] = <<>>
            /\ pc[r] = "done"

C9_Witness ==
    \E r \in Requests :
        /\ Len(outcomes[r]) = 1
        /\ outcomes[r][1].kind = "response"
        /\ Resolved(r)

\* C10: a request whose first send fails with something other than a 429
\* and whose second send is answered resolves with the second response,
\* after two sends and one timer wait of the resolved delay (the per-call
\* retryDelay when it is given and not 0, else the instance default).
C10_OneRetryThenSuccess ==
    \A r \in Requests :
        (/\ Len(outcomes[r]) = 2
         /\ outcomes[r][1].kind = "error"
         /\ ~IsTooManyRequests(outcomes[r][1].value)
         /\ outcomes[r][2].kind = "response") =>
            /\ Resolved(r)
            /\ promise[r].value = Some(outcomes[r][2].value)
            /\ sends[r] = 2
            /\ waits[r] =
                   << IF args[r].retryDelay \notin {None, Some(0)}
                      THEN args[r].retryDelay[1]
                      ELSE defaultRetryDelay >>

C10_Witness ==
    \E r \in Requests :
        /\ Len(outcomes[r]) = 2
        /\ outcomes[r][1].value = StatusError(500)
        /\ outcomes[r][2].kind = "response"
        /\ args[r].retryDelay = Some(50)
        /\ waits[r] = <<50>>

\* The transport outcomes of r, without the state each send ran with.
OwnOutcomes(r) ==
    [k \in 1..Len(outcomes[r]) |->
        [kind |-> outcomes[r][k].kind, value |-> outcomes[r][k].value]]

\* Everything the model keeps for request r.
RequestState(r) ==
    <<pc[r], args[r], config[r], sends[r], outcomes[r], promise[r],
      resolveCalls[r], rejectCalls[r], retryCalls[r], timer[r], waits[r],
      log[r]>>

SameInputs(r, q) ==
    /\ Called(r) /\ Called(q)
    /\ args[r] = args[q]
    /\ OwnOutcomes(r) = OwnOutcomes(q)
    /\ sends[r] = sends[q]

\* C11: concurrent requests are independent.  Two requests given the same
\* arguments and the same transport outcomes have the same RetryState at
\* every send, the same waits and the same promise, however their callbacks
\* interleave; a step changes the state of at most one request, and no step
\* changes defaultRetryDelay or defaultMaxNumberAttempts.
C11_RequestsIndependent ==
    /\ [](\A r, q \in Requests :
            SameInputs(r, q) =>
                /\ config[r] = config[q]
                /\ outcomes[r] = outcomes[q]
                /\ waits[r] = waits[q]
                /\ promise[r] = promise[q])
    /\ [][/\ Cardinality({r \in Requests :
                             RequestState(r)' # RequestState(r)}) <= 1
          /\ defaultRetryDelay' = defaultRetryDelay
          /\ defaultMaxNumberAttempts' = defaultMaxNumberAttempts]_vars

C11_Witness ==
    /\ SameInputs(1, 2)
    /\ Len(outcomes[1]) = 2
    /\ outcomes[1][1].value = StatusError(429)
    /\ outcomes[1][2].value = StatusError(500)
    /\ pc[1] = "waiting" /\ pc[2] = "waiting"
    /\ waits[1] = waits[2]

Settled(r) == promise[r].state # "pending"

\* C12: with a cap maxNumberAttempts > 0 a request never makes more than
\* maxNumberAttempts + 1 sends, and when every send completes and every
\* timer fires it is eventually resolved or rejected.
C12_BoundedEventuallySettles ==
    /\ [](\A r \in Requests :
            (Called(r) /\ MaxNumberAttemptsOf(r) > 0) =>
                sends[r] <= MaxNumberAttemptsOf(r) + 1)
    /\ \A r \in Requests :
           (Called(r) /\ MaxNumberAttemptsOf(r) > 0) ~> Settled(r)

C12_Witness ==
    \E r \in Requests :
        /\ MaxNumberAttemptsOf(r) = 3
        /\ Rejected(r)
        /\ NumFailures(r) = 4

\* C13: the retryDelay of the first send is the per-call retryDelay when it
\* is given and not 0, else the instance's defaultRetryDelay; that default
\* is 5000 when the constructor is given none.
C13_RetryDelayResolution ==
    \A r \in Requests :
        /\ Called(r) =>
               ConfigOfSend(r, 1).retryDelay =
                   IF args[r].retryDelay \in {None, Some(0)}
                   THEN defaultRetryDelay
                   ELSE args[r].retryDelay[1]
        /\ ctorOptions.defaultRetryDelay = None => defaultRetryDelay = 5000
        /\ ctorOptions.defaultRetryDelay # None =>
               defaultRetryDelay = ctorOptions.defaultRetryDelay[1]

C13_Witness ==
    \E r \in Requests :
        /\ args[r].retryDelay = Some(0)
        /\ ctorOptions.defaultRetryDelay = None
        /\ waits[r] = <<5000>>

ErrorEntries(r) == SelectSeq(log[r], LAMBDA entry : entry.level = "error")
DebugEntries(r) == SelectSeq(log[r], LAMBDA entry : entry.level = "debug")

\* C14: every failed send of a request leaves one error-level log entry
\* with the failure's message, and every retry its debug-level entries.
C14_ErrorLoggedPerFailure ==
    \A r \in Requests :
        /\ Len(ErrorEntries(r)) = NumFailures(r)
        /\ \A k \in 1..Len(ErrorEntries(r)) :
               ErrorEntries(r)[k].message = Failures(r)[k].value.message
        /\ Len(DebugEntries(r)) >= 2 * (sends[r] - 1)

\* C14 as amended: every failed send that is retried leaves one error-level
\* entry with the failure's message and a debug-level entry, and the timer
\* callback of each retry one more debug-level entry; the failed send that
\* gets the request rejected leaves no entry, so the error-level entries
\* number the failed sends less the rejection.
C14_ErrorLoggedPerRetriedFailure ==
    \A r \in Requests :
        /\ Len(ErrorEntries(r)) = Len(waits[r])
        /\ Len(ErrorEntries(r)) = NumFailures(r) - rejectCalls[r]
        /\ \A k \in 1..Len(ErrorEntries(r)) :
               ErrorEntries(r)[k].message = Failures(r)[k].value.message
        /\ Len(DebugEntries(r)) =
               Len(waits[r]) + (IF Called(r) THEN sends[r] - 1 ELSE 0)

C14_Witness ==
    \E r \in Requests :
        /\ Rejected(r)
        /\ NumFailures(r) = 3
        /\ Len(ErrorEntries(r)) = 2

\* C15: a failed send handled with (attempts, maxNumberAttempts) rejects
\* the request exactly when maxNumberAttempts > 0 and attempts >=
\* maxNumberAttempts, arming no timer; otherwise it rejects nothing and
\* arms exactly one timer.
C15_RejectIffExceeded ==
    [][\A r \in Requests :
         (/\ Len(outcomes'[r]) = Len(outcomes[r]) + 1
          /\ outcomes'[r][Len(outcomes'[r])].kind = "error") =>
            IF /\ config[r].maxNumberAttempts > 0
               /\ config[r].attempts >= config[r].maxNumberAttempts
            THEN /\ rejectCalls'[r] = rejectCalls[r] + 1
                 /\ promise'[r].state = "rejected"
                 /\ waits'[r] = waits[r]
                 /\ timer'[r] = None
            ELSE /\ rejectCalls'[r] = rejectCalls[r]
                 /\ promise'[r] = promise[r]
                 /\ Len(waits'[r]) = Len(waits[r]) + 1
                 /\ timer'[r] # None]_vars

C15_Witness ==
    \E r \in Requests :
        /\ MaxNumberAttemptsOf(r) = 2
        /\ config[r].attempts = 2
        /\ Rejected(r)
        /\ Len(waits[r]) = 2

\* C16: the timer armed after a failed send waits newRetryDelay, the delay
\* computed from that failure (doubled for a 429); the next send runs with
\* attempts + 1, newRetryDelay and the same maxNumberAttempts, and it is
\* issued only once that timer has fired.
C16_TimerWaitsNewRetryDelay ==
    \A r \in Requests :
        /\ \A k \in 1..Len(waits[r]) :
               LET cfg == ConfigOfSend(r, k)
                   newRetryDelay ==
                       IF outcomes[r][k].value \in {StatusError(429)}
                       THEN 2 * cfg.retryDelay ELSE cfg.retryDelay
               IN  /\ waits[r][k] = newRetryDelay
                   /\ k < sends[r] =>
                          ConfigOfSend(r, k + 1) =
                              [attempts |-> cfg.attempts + 1,
                               retryDelay |-> newRetryDelay,
                               maxNumberAttempts |-> cfg.maxNumberAttempts]
        /\ sends[r] <= Len(waits[r]) + 1
        /\ timer[r] # None =>
               /\ sends[r] = Len(waits[r])
               /\ timer[r][1].delay = waits[r][Len(waits[r])]

C16_Witness ==
    \E r \in Requests :
        /\ args[r].retryDelay = Some(50)
        /\ sends[r] = 3
        /\ waits[r] = <<100, 100>>
        /\ outcomes[r][1].value = StatusError(429)

\* C17: attempts is 0 at the first send and one more at each later send, so
\* the attempts of the current RetryState is the number of sends minus one;
\* maxNumberAttempts is the same at every send.
C17_AttemptsCountSends ==
    \A r \in Requests :
        /\ ~Called(r) => sends[r] = 0
        /\ Called(r) =>
               /\ config[r].attempts = sends[r] - 1
               /\ \A k \in 1..sends[r] :
                      /\ ConfigOfSend(r, k).attempts = k - 1
                      /\ ConfigOfSend(r, k).maxNumberAttempts =
                             ConfigOfSend(r, 1).maxNumberAttempts

C17_Witness ==
    \E r \in Requests :
        /\ sends[r] = 5
        /\ config[r].attempts = 4
        /\ pc[r] = "sending"

\* C18: with an initial retryDelay >= 0, retryDelay never decreases from
\* one send to the next, and it changes only by doubling after a 429.
C18_RetryDelayNonDecreasing ==
    \A r \in Requests :
        (Called(r) /\ ConfigOfSend(r, 1).retryDelay >= 0) =>
            \A k \in 1..(sends[r] - 1) :
                /\ ConfigOfSend(r, k + 1).retryDelay >=
                       ConfigOfSend(r, k).retryDelay
                /\ ConfigOfSend(r, k + 1).retryDelay #
                       ConfigOfSend(r, k).retryDelay =>
                       /\ outcomes[r][k].value = StatusError(429)
                       /\ ConfigOfSend(r, k + 1).retryDelay =
                              2 * ConfigOfSend(r, k).retryDelay

C18_Witness ==
    \E r \in Requests :
        /\ sends[r] = 4
        /\ outcomes[r][1].value = StatusError(429)
        /\ outcomes[r][2].value = NetworkError
        /\ outcomes[r][3].value = StatusError(429)
        /\ config[r].retryDelay = 4 * ConfigOfSend(r, 1).retryDelay

InFlightSends(r) == sends[r] - Len(outcomes[r])
PendingTimers(r) == IF timer[r] # None THEN 1 ELSE 0

\* C19: a settled request is finished: it has no send in flight and no
\* timer pending, and no later step sends for it, arms a timer for it,
\* logs for it or changes its promise.
C19_TerminalAbsorbing ==
    /\ [](\A r \in Requests :
            Settled(r) =>
                /\ pc[r] = "done"
                /\ InFlightSends(r) = 0
                /\ PendingTimers(r) = 0)
    /\ [][\A r \in Requests :
            Settled(r) =>
                /\ sends'[r] = sends[r]
                /\ timer'[r] = None
                /\ waits'[r] = waits[r]
                /\ log'[r] = log[r]
                /\ promise'[r] = promise[r]]_vars

C19_Witness ==
    /\ Rejected(1)
    /\ Len(outcomes[1]) = 2
    /\ pc[2] = "sending"
    /\ sends[2] = 2

\* C20: an unsettled request has exactly one outstanding activity, a send
\* in flight or a pending timer; a pending timer is never cancelled: it
\* ends only by issuing the next send, and it does end.
C20_OneOutstandingActivity ==
    /\ [](\A r \in Requests :
            (Called(r) /\ ~Settled(r)) =>
                /\ InFlightSends(r) \in {0, 1}
                /\ InFlightSends(r) + PendingTimers(r) = 1)
    /\ [][\A r \in Requests :
            (timer[r] # None /\ timer'[r] # timer[r]) =>
                /\ timer'[r] = None
                /\ sends'[r] = sends[r] + 1
                /\ config'[r] = timer[r][1].next
                /\ pc'[r] = "sending"]_vars
    /\ \A r \in Requests : (timer[r] # None) ~> (pc[r] = "sending")

C20_Witness ==
    \E r \in Requests :
        /\ pc[r] = "sending"
        /\ sends[r] = 3
        /\ InFlightSends(r) = 1
        /\ timer[r] = None
        /\ ~Settled(r)

====
